---- MODULE Spec2Model ----
(***************************************************************************)
(* Tray controller of RimeTool (src/src/main.rs): the single-instance      *)
(* guard of main, create_tray, the dispatch closure of start, the service  *)
(* controller (rime_start_service, rime_stop_service, rime_redeploy) and   *)
(* the process inspector (get_service_status), together with the detached  *)
(* spawn workers and the server processes of the OS process table.         *)
(*                                                                         *)
(* The dispatch closure runs on the loop thread; the workers and the       *)
(* server processes run concurrently with it.  The handling of an event is *)
(* therefore modelled by the positions of the loop thread inside the       *)
(* closure (hpc): after the controller operation, the process-table        *)
(* snapshot of get_service_status and set_checked are steps between which  *)
(* a worker may spawn and a process may exit.  The menu and icon handlers  *)
(* run on the loop thread as well (CheckMenuItem is not Send), so they     *)
(* only run while the loop is between two events.                          *)
(***************************************************************************)
EXTENDS Integers, Sequences, FiniteSets, TLC

\* ---- bounds of the model ----
MaxInstances == 2   \* processes named like the current executable, itself included
MaxProcs == 2       \* server processes in the process table
MaxClicks == 3      \* menu and icon activations by the user
NumInst == 3        \* instances of the program launched side by side

VARIABLES
    pc,              \* position of the main thread: main, start, exit0, panic, Running, Terminated
    instances,       \* entries of the process table named like the current executable
    tray_icon,       \* TrayIconContext.tray_icon: "unbuilt", "Some" or "None"
    released,        \* number of times a TrayIcon was dropped
    checked,         \* the checked state of the service CheckMenuItem
    queue,           \* user events sent through the EventLoopProxy, not yet handled
    clickChecked,    \* history: the checkbox as it was when each queued event was sent
    hpc,             \* position of the loop thread in the closure: wait, query, set
    cur,             \* the event being handled, or handled last
    curClick,        \* history: the checkbox as it was when cur was sent
    snap,            \* the value returned by get_service_status in this handling
    tableAtQuery,    \* history: server processes in the table at that snapshot
    settledAtQuery,  \* history: no spawn or kill was in flight at that snapshot
    alive,           \* server processes in the table that received no kill
    dying,           \* server processes killed but still in the table
    pendingStart,    \* detached workers of rime_start_service that have not spawned yet
    pendingRedeploy, \* detached workers of rime_redeploy that have not spawned yet
    errs,            \* spawn failures logged by the workers
    errAt,           \* history: number of events sent when the last failure was logged
    enq,             \* history: number of events sent so far
    opLog,           \* history: the controller operations invoked, in order
    root,            \* CONFIG.root: the path of the service's directory, as components
    spawned,         \* history: the spawn attempts made by the workers
    control_flow,    \* the loop's control flow: Poll, WaitUntil or Exit
    exited,          \* the process has exited after the loop ended
    qids,            \* history: the serial number of each queued event
    lastId,          \* history: the serial number of cur
    ipc,             \* position of each instance launched side by side
    icount           \* the count each such instance saw in its snapshot

vars == <<pc, instances, tray_icon, released, checked, queue, clickChecked, hpc,
          cur, curClick, snap, tableAtQuery, settledAtQuery, alive, dying,
          pendingStart, pendingRedeploy, errs, errAt, enq, opLog,
          root, spawned, control_flow, exited, qids, lastId, ipc, icount>>

startupVars == <<pc, instances, root, ipc, icount, exited, tray_icon, released>>
loopVars    == <<hpc, cur, curClick, lastId, snap, tableAtQuery, settledAtQuery, control_flow>>
queueVars   == <<queue, clickChecked, qids, enq>>
tableVars   == <<alive, dying>>
workerVars  == <<pendingStart, pendingRedeploy, spawned>>
logVars     == <<errs, errAt>>

\* enum TrayUserEvent; UpdateService(bool) is never sent
TrayUserEvent == {"Quit", "ServiceClicked", "IconClicked", "UpdateService"}

\* s.processes_by_name("WeaselServer.exe").count()
Matching == alive + dying

Redeploys == Cardinality({i \in DOMAIN opLog : opLog[i].op = "redeploy"})
ClicksUsed == enq + Redeploys

Last(s) == s[Len(s)]

\* the instances launched side by side
Inst == 1..NumInst

\* values of the root option; a path is the sequence of its components
Roots == {<<"opt", "svc">>, <<"C:", "Rime", "weasel">>}
\* Path::new(p).join(name), for a relative name
Join(p, name) == p \o <<name>>

----------------------------------------------------------------------------
\* ---- process inspector and service controller ----

get_service_status_gt1 == Matching > 1
get_service_status == Matching > 0

rime_start_service_inline ==
    /\ pendingStart' = pendingStart
    /\ alive' = IF Matching < MaxProcs THEN alive + 1 ELSE alive
    /\ opLog' = Append(opLog, [op |-> "start", killed |-> 0])
    /\ UNCHANGED <<dying, pendingRedeploy, spawned, pc>>
\* builds root/WeaselServer.exe and hands the spawn to a detached thread
rime_start_service ==
    /\ pendingStart' = pendingStart + 1
    /\ opLog' = Append(opLog, [op |-> "start", killed |-> 0])
    /\ UNCHANGED <<alive, dying, pendingRedeploy, spawned, pc>>

rime_stop_service_cancel ==
    /\ alive' = 0
    /\ dying' = dying + alive
    /\ opLog' = Append(opLog, [op |-> "stop", killed |-> Matching])
    /\ pendingStart' = 0
    /\ UNCHANGED <<pendingRedeploy, spawned, pc>>
rime_stop_service_unwrap ==
    /\ alive' = 0
    /\ dying' = dying + alive
    /\ opLog' = Append(opLog, [op |-> "stop", killed |-> Matching])
    /\ pc' = IF Matching = 0 THEN "panic" ELSE pc
    /\ UNCHANGED <<pendingStart, pendingRedeploy, spawned>>
\* snapshots the table and sends a kill to every matching process; does not wait
rime_stop_service ==
    /\ alive' = 0
    /\ dying' = dying + alive
    /\ opLog' = Append(opLog, [op |-> "stop", killed |-> Matching])
    /\ UNCHANGED <<pendingStart, pendingRedeploy, spawned, pc>>

\* builds root/WeaselDeployer.exe and hands the spawn to a detached thread
rime_redeploy ==
    /\ pendingRedeploy' = pendingRedeploy + 1
    /\ opLog' = Append(opLog, [op |-> "redeploy", killed |-> 0])
    /\ UNCHANGED <<alive, dying, pendingStart, spawned>>

toggle_service_inverted(c) == IF c THEN rime_stop_service ELSE rime_start_service
toggle_service(c) == IF c THEN rime_start_service ELSE rime_stop_service

update_service_status_keep == checked' = checked
\* service_item.set_checked(<the value get_service_status returned>)
update_service_status == checked' = snap

----------------------------------------------------------------------------
\* ---- startup ----

AlreadyRunning_ge1(n) == n >= 1
AlreadyRunning_gt2(n) == n > 2
\* ps.count() > 1
AlreadyRunning(n) == n > 1

\* main: the single-instance guard, then start()
main ==
    /\ pc = "main"
    /\ pc' = IF AlreadyRunning(instances) THEN "exit0" ELSE "start"
    /\ UNCHANGED <<instances, root, ipc, icount, exited, tray_icon, released, checked>>
    /\ UNCHANGED <<loopVars, queueVars, tableVars, workerVars, logVars, opLog>>

\* load_icon and the two from_rgba conversions panic on failure
load_icon(decodeOk, rgbaOk) == decodeOk /\ rgbaOk

create_tray_sync(decodeOk, rgbaOk, buildOk) ==
    /\ pc = "start"
    /\ IF load_icon(decodeOk, rgbaOk)
         THEN /\ checked' = get_service_status
              /\ tray_icon' = IF buildOk THEN "Some" ELSE "None"
              /\ pc' = "Running"
         ELSE /\ pc' = "panic"
              /\ UNCHANGED <<checked, tray_icon>>
    /\ UNCHANGED <<instances, root, ipc, icount, exited, released>>
    /\ UNCHANGED <<loopVars, queueVars, tableVars, workerVars, logVars, opLog>>
\* create_tray, called by start before the loop runs
create_tray(decodeOk, rgbaOk, buildOk) ==
    /\ pc = "start"
    /\ IF load_icon(decodeOk, rgbaOk)
         THEN /\ checked' = TRUE
              /\ tray_icon' = IF buildOk THEN "Some" ELSE "None"
              /\ pc' = "Running"
         ELSE /\ pc' = "panic"
              /\ UNCHANGED <<checked, tray_icon>>
    /\ UNCHANGED <<instances, root, ipc, icount, exited, released>>
    /\ UNCHANGED <<loopVars, queueVars, tableVars, workerVars, logVars, opLog>>

----------------------------------------------------------------------------
\* ---- tray presentation layer: the menu and icon handlers ----

CanClick ==
    /\ pc = "Running"
    /\ tray_icon = "Some"
    /\ hpc = "wait"
    /\ ClicksUsed < MaxClicks

send_event(e, c) ==
    /\ queue' = Append(queue, e)
    /\ clickChecked' = Append(clickChecked, c)
    /\ qids' = Append(qids, enq + 1)
    /\ enq' = enq + 1

MenuQuit ==
    /\ CanClick
    /\ send_event("Quit", checked)
    /\ UNCHANGED <<startupVars, checked, loopVars, tableVars, workerVars, logVars, opLog>>

MenuRedeploy_enqueue ==
    /\ CanClick
    /\ rime_redeploy
    /\ send_event("ServiceClicked", checked)
    /\ UNCHANGED <<startupVars, checked, loopVars, logVars>>
\* event.id == redeploy_id: rime_redeploy() from the handler, nothing is sent
MenuRedeploy ==
    /\ CanClick
    /\ rime_redeploy
    /\ UNCHANGED <<startupVars, checked, loopVars, queueVars, logVars>>

\* the check item flips its own state when it is activated, then the handler runs
MenuService ==
    /\ CanClick
    /\ checked' = ~checked
    /\ send_event("ServiceClicked", ~checked)
    /\ UNCHANGED <<startupVars, loopVars, tableVars, workerVars, logVars, opLog>>

IconClick ==
    /\ CanClick
    /\ send_event("IconClicked", checked)
    /\ UNCHANGED <<startupVars, checked, loopVars, tableVars, workerVars, logVars, opLog>>

----------------------------------------------------------------------------
\* ---- event dispatch loop: the closure of start ----

Deliver_lifo(e) ==
    /\ pc = "Running"
    /\ hpc = "wait"
    /\ queue # <<>>
    /\ Last(queue) = e
    /\ queue' = SubSeq(queue, 1, Len(queue) - 1)
    /\ clickChecked' = SubSeq(clickChecked, 1, Len(queue) - 1)
    /\ cur' = e
    /\ curClick' = Last(clickChecked)
    /\ qids' = SubSeq(qids, 1, Len(queue) - 1)
    /\ lastId' = Last(qids)
    /\ UNCHANGED enq
\* the loop hands the oldest user event of the proxy's channel to the closure
Deliver(e) ==
    /\ pc = "Running"
    /\ hpc = "wait"
    /\ queue # <<>>
    /\ Head(queue) = e
    /\ queue' = Tail(queue)
    /\ clickChecked' = Tail(clickChecked)
    /\ cur' = e
    /\ curClick' = Head(clickChecked)
    /\ qids' = Tail(qids)
    /\ lastId' = Head(qids)
    /\ UNCHANGED enq

HandleQuit_noExit ==
    /\ Deliver("Quit")
    /\ released' = IF tray_icon = "Some" THEN released + 1 ELSE released
    /\ tray_icon' = "None"
    /\ pc' = "Running"
    /\ control_flow' = "WaitUntil"
    /\ UNCHANGED <<instances, root, ipc, icount, exited, checked, hpc, snap, tableAtQuery, settledAtQuery>>
    /\ UNCHANGED <<tableVars, workerVars, logVars, opLog>>
\* UserEvent(Quit): tray_icon.take(); *control_flow = Exit
HandleQuit ==
    /\ Deliver("Quit")
    /\ released' = IF tray_icon = "Some" THEN released + 1 ELSE released
    /\ tray_icon' = "None"
    /\ pc' = "Terminated"
    /\ control_flow' = "Exit"
    /\ UNCHANGED <<instances, root, ipc, icount, exited, checked, hpc, snap, tableAtQuery, settledAtQuery>>
    /\ UNCHANGED <<tableVars, workerVars, logVars, opLog>>

HandleIconClicked_toggle ==
    /\ Deliver("IconClicked")
    /\ toggle_service(checked)
    /\ hpc' = "query"
    /\ control_flow' = "WaitUntil"
    /\ UNCHANGED <<instances, root, ipc, icount, exited, tray_icon, released, checked>>
    /\ UNCHANGED <<snap, tableAtQuery, settledAtQuery, logVars>>
\* UserEvent(IconClicked): enters update_service_status
HandleIconClicked ==
    /\ Deliver("IconClicked")
    /\ hpc' = "query"
    /\ control_flow' = "WaitUntil"
    /\ UNCHANGED <<startupVars, checked, snap, tableAtQuery, settledAtQuery>>
    /\ UNCHANGED <<tableVars, workerVars, logVars, opLog>>

\* UserEvent(ServiceClicked): toggle_service(service.is_checked()), then
\* enters update_service_status
HandleServiceClicked ==
    /\ Deliver("ServiceClicked")
    /\ toggle_service(checked)
    /\ hpc' = "query"
    /\ control_flow' = "WaitUntil"
    /\ UNCHANGED <<instances, root, ipc, icount, exited, tray_icon, released, checked>>
    /\ UNCHANGED <<snap, tableAtQuery, settledAtQuery, logVars>>

\* get_service_status() inside update_service_status: the table snapshot
Query ==
    /\ pc = "Running"
    /\ hpc = "query"
    /\ snap' = get_service_status
    /\ tableAtQuery' = Matching
    /\ settledAtQuery' = (pendingStart = 0 /\ dying = 0)
    /\ hpc' = "set"
    /\ UNCHANGED <<startupVars, checked, cur, curClick, lastId, control_flow>>
    /\ UNCHANGED <<queueVars, tableVars, workerVars, logVars, opLog>>

\* set_checked inside update_service_status; the closure returns
SetChecked ==
    /\ pc = "Running"
    /\ hpc = "set"
    /\ update_service_status
    /\ hpc' = "wait"
    /\ UNCHANGED <<startupVars, cur, curClick, lastId, control_flow, snap, tableAtQuery, settledAtQuery>>
    /\ UNCHANGED <<queueVars, tableVars, workerVars, logVars, opLog>>

Tick_refresh ==
    /\ pc = "Running"
    /\ hpc = "wait"
    /\ control_flow' = "WaitUntil"
    /\ checked' = get_service_status
    /\ UNCHANGED <<startupVars, hpc, cur, curClick, lastId, snap, tableAtQuery, settledAtQuery>>
    /\ UNCHANGED <<queueVars, tableVars, workerVars, logVars, opLog>>
\* any other event of the loop (NewEvents, the 16 ms wake-up, ...): the
\* closure sets WaitUntil and falls through the match
Tick ==
    /\ pc = "Running"
    /\ hpc = "wait"
    /\ control_flow' = "WaitUntil"
    /\ UNCHANGED <<startupVars, checked, hpc, cur, curClick, lastId, snap, tableAtQuery, settledAtQuery>>
    /\ UNCHANGED <<queueVars, tableVars, workerVars, logVars, opLog>>

LoopDestroyed_refresh ==
    /\ pc = "Terminated"
    /\ ~exited
    /\ exited' = TRUE
    /\ checked' = get_service_status
    /\ UNCHANGED <<pc, instances, root, ipc, icount, tray_icon, released, loopVars>>
    /\ UNCHANGED <<queueVars, tableVars, workerVars, logVars, opLog>>
\* after Exit the loop stops: the closure sees LoopDestroyed and falls through
\* the match, its WaitUntil is ignored, run never returns and the process
\* exits with its detached threads
LoopDestroyed ==
    /\ pc = "Terminated"
    /\ ~exited
    /\ exited' = TRUE
    /\ UNCHANGED <<pc, instances, root, ipc, icount, tray_icon, released, checked, loopVars>>
    /\ UNCHANGED <<queueVars, tableVars, workerVars, logVars, opLog>>

----------------------------------------------------------------------------
\* ---- detached workers and the server processes ----

ProcessLives == pc \in {"Running", "Terminated"} /\ ~exited

\* the executable names and the lifecycle flags
server_exe == "WeaselServer.exe"
deploy_exe == "WeaselDeployer.exe"
restart_args == <<"/restart">>
deploy_args == <<"/deploy">>

server_path_deployer == Join(root, deploy_exe)
\* Path::new(&CONFIG.root).join(server)
server_path == Join(root, server_exe)
\* Path::new(&CONFIG.root).join(deploy)
deployer_path == Join(root, deploy_exe)

\* Command::new(exe).args(args).spawn() by the worker of operation by
Spawn(by, exe, args) == spawned' = spawned \cup {[by |-> by, exe |-> exe, args |-> args]}

start_worker_propagate(ok) ==
    /\ ProcessLives
    /\ pendingStart > 0
    /\ pendingStart' = pendingStart - 1
    /\ Spawn("start", server_path, restart_args)
    /\ IF ok /\ Matching < MaxProcs
         THEN /\ alive' = alive + 1
              /\ UNCHANGED <<logVars, pc>>
         ELSE /\ errs' = errs + 1
              /\ errAt' = enq
              /\ pc' = "panic"
              /\ UNCHANGED alive
    /\ UNCHANGED <<instances, root, ipc, icount, exited, tray_icon, released, checked, loopVars, queueVars>>
    /\ UNCHANGED <<dying, pendingRedeploy, opLog>>
\* the thread of rime_start_service: Command::new(server).args(args).spawn(),
\* an Err is logged
start_worker(ok) ==
    /\ ProcessLives
    /\ pendingStart > 0
    /\ pendingStart' = pendingStart - 1
    /\ Spawn("start", server_path, restart_args)
    /\ IF ok /\ Matching < MaxProcs
         THEN /\ alive' = alive + 1
              /\ UNCHANGED logVars
         ELSE /\ errs' = errs + 1
              /\ errAt' = enq
              /\ UNCHANGED alive
    /\ UNCHANGED <<startupVars, checked, loopVars, queueVars>>
    /\ UNCHANGED <<dying, pendingRedeploy, opLog>>

\* the thread of rime_redeploy: Command::new(deployer).args(args).spawn(),
\* an Err is logged
redeploy_worker(ok) ==
    /\ ProcessLives
    /\ pendingRedeploy > 0
    /\ pendingRedeploy' = pendingRedeploy - 1
    /\ Spawn("redeploy", deployer_path, deploy_args)
    /\ IF ok
         THEN UNCHANGED logVars
         ELSE /\ errs' = errs + 1
              /\ errAt' = enq
    /\ UNCHANGED <<startupVars, checked, loopVars, queueVars>>
    /\ UNCHANGED <<tableVars, pendingStart, opLog>>

\* a killed server process leaves the process table
KilledExit ==
    /\ dying > 0
    /\ dying' = dying - 1
    /\ UNCHANGED <<startupVars, checked, loopVars, queueVars>>
    /\ UNCHANGED <<alive, workerVars, logVars, opLog>>

\* a server process exits on its own
ServerExit ==
    /\ alive > 0
    /\ alive' = alive - 1
    /\ UNCHANGED <<startupVars, checked, loopVars, queueVars>>
    /\ UNCHANGED <<dying, workerVars, logVars, opLog>>

----------------------------------------------------------------------------
Init ==
    /\ pc = "main"
    /\ instances \in 1..MaxInstances
    /\ tray_icon = "unbuilt"
    /\ released = 0
    /\ checked = FALSE
    /\ queue = <<>>
    /\ clickChecked = <<>>
    /\ hpc = "wait"
    /\ cur = "none"
    /\ curClick = FALSE
    /\ snap = FALSE
    /\ tableAtQuery = 0
    /\ settledAtQuery = TRUE
    /\ alive \in 0..MaxProcs
    /\ dying = 0
    /\ pendingStart = 0
    /\ pendingRedeploy = 0
    /\ errs = 0
    /\ errAt = -1
    /\ enq = 0
    /\ opLog = <<>>
    /\ root \in Roots
    /\ spawned = {}
    /\ control_flow = "Poll"
    /\ exited = FALSE
    /\ qids = <<>>
    /\ lastId = 0
    /\ ipc = [i \in Inst |-> "idle"]
    /\ icount = [i \in Inst |-> 0]

Next ==
    \/ main
    \/ \E d \in BOOLEAN, r \in BOOLEAN, b \in BOOLEAN : create_tray(d, r, b)
    \/ MenuQuit
    \/ MenuRedeploy
    \/ MenuService
    \/ IconClick
    \/ HandleQuit
    \/ HandleIconClicked
    \/ HandleServiceClicked
    \/ Query
    \/ SetChecked
    \/ Tick
    \/ LoopDestroyed
    \/ \E ok \in BOOLEAN : start_worker(ok)
    \/ \E ok \in BOOLEAN : redeploy_worker(ok)
    \/ KilledExit
    \/ ServerExit

Spec == Init /\ [][Next]_vars

\* the threads of the process run whenever they can: the loop thread, the
\* detached workers and the exit of the process are not starved
Fairness ==
    /\ WF_vars(HandleQuit \/ HandleIconClicked \/ HandleServiceClicked)
    /\ WF_vars(Query) /\ WF_vars(SetChecked) /\ WF_vars(LoopDestroyed)
    /\ WF_vars(\E ok \in BOOLEAN : start_worker(ok))
    /\ WF_vars(\E ok \in BOOLEAN : redeploy_worker(ok))

FairSpec == Spec /\ Fairness

----------------------------------------------------------------------------
\* ---- several instances launched side by side: the guard of main ----

singleVars == <<pc, instances, tray_icon, released, checked, queue, clickChecked, hpc,
                cur, curClick, snap, tableAtQuery, settledAtQuery, alive, dying,
                pendingStart, pendingRedeploy, errs, errAt, enq, opLog,
                root, spawned, control_flow, exited, qids, lastId>>

\* an instance is in the process table from its launch until its exit
InTable(i) == ipc[i] \in {"main", "exiting", "loop"}
\* s.processes_by_name(e).count() in the snapshot of main
TableCount == Cardinality({i \in Inst : InTable(i)})

\* the executable is launched
Launch(i) ==
    /\ ipc[i] = "idle"
    /\ ipc' = [ipc EXCEPT ![i] = "main"]
    /\ UNCHANGED <<icount, singleVars>>

\* main: the snapshot, then exit(0) or start()
InstMain(i) ==
    /\ ipc[i] = "main"
    /\ icount' = [icount EXCEPT ![i] = TableCount]
    /\ ipc' = [ipc EXCEPT ![i] = IF AlreadyRunning(TableCount) THEN "exiting" ELSE "loop"]
    /\ UNCHANGED singleVars

\* std::process::exit(0) takes effect: the instance leaves the table
InstExit(i) ==
    /\ ipc[i] = "exiting"
    /\ ipc' = [ipc EXCEPT ![i] = "exit0"]
    /\ UNCHANGED <<icount, singleVars>>

\* an instance that entered the loop handles Quit and leaves the table
InstQuit(i) ==
    /\ ipc[i] = "loop"
    /\ ipc' = [ipc EXCEPT ![i] = "quit"]
    /\ UNCHANGED <<icount, singleVars>>

GuardInit ==
    /\ Init
    /\ instances = 1
    /\ alive = 0
    /\ root = <<"opt", "svc">>

GuardNext ==
    \E i \in Inst :
        \/ Launch(i)
        \/ InstMain(i)
        \/ InstExit(i)
        \/ InstQuit(i)

GuardSpec == GuardInit /\ [][GuardNext]_vars

\* a launched process runs its main and an exit takes effect
GuardFairSpec ==
    /\ GuardSpec
    /\ \A i \in Inst : WF_vars(InstMain(i)) /\ WF_vars(InstExit(i))

TypeOK ==
    /\ pc \in {"main", "start", "exit0", "panic", "Running", "Terminated"}
    /\ instances \in 1..MaxInstances
    /\ tray_icon \in {"unbuilt", "Some", "None"}
    /\ released \in Nat
    /\ checked \in BOOLEAN
    /\ queue \in Seq(TrayUserEvent)
    /\ Len(clickChecked) = Len(queue)
    /\ hpc \in {"wait", "query", "set"}
    /\ cur \in TrayUserEvent \cup {"none"}
    /\ alive \in 0..MaxProcs /\ dying \in 0..MaxProcs
    /\ Matching <= MaxProcs
    /\ pendingStart \in 0..MaxClicks /\ pendingRedeploy \in 0..MaxClicks
    /\ errs \in 0..MaxClicks
    /\ enq \in 0..MaxClicks
    /\ Len(opLog) <= MaxClicks
    /\ root \in Roots
    /\ control_flow \in {"Poll", "WaitUntil", "Exit"}
    /\ exited \in BOOLEAN
    /\ Len(qids) = Len(queue)
    /\ lastId \in 0..MaxClicks

----------------------------------------------------------------------------
\* ---- steps of the loop thread, as seen on a pair of states ----

\* the closure returns from handling an IconClicked or a ServiceClicked event
FinishStep == hpc = "set" /\ hpc' = "wait"
\* the closure starts handling event e
DispatchStep(e) == Len(queue') < Len(queue) /\ cur' = e
\* a controller operation is invoked
OpStep(o) == Len(opLog') = Len(opLog) + 1 /\ Last(opLog').op = o
\* a detached worker makes its spawn attempt
WorkerStep == pendingStart' < pendingStart \/ pendingRedeploy' < pendingRedeploy

----------------------------------------------------------------------------
\* C1 (as stated): whenever the loop finishes handling an IconClicked or a
\* ServiceClicked event, the checkbox equals the presence of a server process
\* in the process table at that moment, for every interleaving.
C1_CheckboxEqualsTable ==
    [][FinishStep => checked' = (alive' + dying' > 0)]_vars

\* C1 (amended): whenever the loop finishes handling an IconClicked or a
\* ServiceClicked event, the checkbox equals the presence of a server process
\* in the snapshot that handling took after its controller operation; it
\* equals the table of that moment when no process entered or left the table
\* since the snapshot.
C1_CheckboxEqualsSnapshot ==
    [][FinishStep =>
          /\ checked' = (tableAtQuery > 0)
          /\ (alive + dying = tableAtQuery => checked' = (alive' + dying' > 0))]_vars

\* a handling has finished although the table changed after its snapshot
C1_Witness ==
    /\ pc = "Running" /\ hpc = "wait"
    /\ cur \in {"IconClicked", "ServiceClicked"}
    /\ tableAtQuery = 1 /\ alive + dying = 0
    /\ checked

\* C2: for ServiceClicked events, when every spawn and kill issued before the
\* snapshot had taken effect by then and the table did not change afterwards,
\* the checkbox after the event equals the liveness of the server process.
C2_PullConsistency ==
    [][(FinishStep /\ cur = "ServiceClicked" /\ settledAtQuery
           /\ alive = tableAtQuery /\ dying = 0)
          => checked' = (alive' > 0) /\ dying' = 0 /\ pendingStart' = 0]_vars

\* two ServiceClicked events were handled, the second one under the assumption
C2_Witness ==
    /\ pc = "Running" /\ hpc = "wait" /\ cur = "ServiceClicked"
    /\ Len(opLog) = 2 /\ opLog[1].op = "stop" /\ opLog[2].op = "start"
    /\ settledAtQuery /\ alive = tableAtQuery /\ dying = 0
    /\ checked /\ alive = 1

\* C3: handling ServiceClicked while Running reads the checkbox as it is at
\* that moment and invokes exactly one controller operation, start if it is
\* checked and stop if it is not; the handling then takes its snapshot, sets
\* the checkbox from it, invokes nothing else and stays Running.
C3_ToggleReadsCurrentCheckbox ==
    [][/\ DispatchStep("ServiceClicked") =>
             /\ pc = "Running" /\ pc' = "Running" /\ hpc' = "query"
             /\ OpStep(IF checked THEN "start" ELSE "stop")
       /\ (cur = "ServiceClicked" /\ hpc # "wait" /\ hpc' # hpc) =>
             /\ opLog' = opLog /\ pc' = "Running"
             /\ (hpc = "query" => hpc' = "set" /\ snap' = (alive + dying > 0))
             /\ (hpc = "set" => hpc' = "wait" /\ checked' = snap)]_vars

\* a ServiceClicked sent with the checkbox checked is handled with it unchecked
C3_Witness ==
    /\ pc = "Running" /\ cur = "ServiceClicked" /\ hpc = "query"
    /\ curClick = TRUE /\ checked = FALSE
    /\ opLog # <<>> /\ Last(opLog).op = "stop"

\* C4: a handled Quit terminates the loop and releases the tray icon; the
\* tray icon is released exactly once when a Quit was handled and never
\* otherwise, whatever else is queued.
C4_QuitReleasesOnce ==
    /\ released \in {0, 1}
    /\ (cur = "Quit") = (pc = "Terminated")
    /\ (cur = "Quit" => released = 1 /\ tray_icon = "None")
    /\ (released = 1 => cur = "Quit")

\* a Quit was handled while a second Quit is still queued
C4_Witness ==
    /\ pc = "Terminated" /\ released = 1
    /\ \E i \in DOMAIN queue : queue[i] = "Quit"

\* C5: with more than one process named like the executable the program exits
\* from main, without a tray and without handling any event; with exactly one
\* it never takes that exit and goes on to start().
C5_SingleInstanceGuard ==
    /\ (instances > 1 =>
           /\ pc \in {"main", "exit0"}
           /\ tray_icon = "unbuilt" /\ cur = "none" /\ hpc = "wait" /\ queue = <<>>)
    /\ (instances = 1 => pc # "exit0")
    /\ (pc = "exit0" => instances > 1)

\* the guard has exited one run
C5_Witness == pc = "exit0" /\ instances = 2

\* C6: handling IconClicked while Running unchecks the checkbox when no server
\* process is in the table and checks it when one or more are; it invokes no
\* controller operation, leaves the process table alone and stays Running.
C6_IconRefreshOnly ==
    [][/\ DispatchStep("IconClicked") =>
             /\ pc = "Running" /\ hpc' = "query"
             /\ UNCHANGED <<pc, opLog, alive, dying, pendingStart, pendingRedeploy, checked>>
       /\ (cur = "IconClicked" /\ hpc # "wait" /\ hpc' # hpc) =>
             /\ UNCHANGED <<pc, opLog, alive, dying, pendingStart, pendingRedeploy>>
             /\ (hpc = "query" => /\ (alive + dying = 0 => snap' = FALSE)
                                  /\ (alive + dying >= 1 => snap' = TRUE)
                                  /\ UNCHANGED checked)
             /\ (hpc = "set" => checked' = snap)]_vars

\* an IconClicked was handled with no server process and unchecked the checkbox
C6_Witness ==
    /\ pc = "Running" /\ hpc = "wait" /\ cur = "IconClicked"
    /\ tableAtQuery = 0 /\ checked = FALSE /\ opLog = <<>>

\* C7: the loop is never Running without a successfully built tray icon.
C7_StartupFailureFatal == pc = "Running" => tray_icon = "Some"

\* C8: a failed spawn is absorbed by the worker: the step that logs it leaves
\* the loop, the checkbox, the queue and the tray as they are, and the loop
\* leaves Running only by handling a Quit.
C8_SpawnFailureAbsorbed ==
    [][/\ errs' # errs =>
             /\ WorkerStep
             /\ UNCHANGED <<pc, hpc, cur, checked, snap, queue, tray_icon, released, opLog>>
       /\ (pc = "Running" /\ pc' # "Running") => DispatchStep("Quit")]_vars

\* an event sent after a logged spawn failure has been handled
C8_Witness ==
    /\ errs > 0 /\ pc = "Running" /\ hpc = "wait"
    /\ enq - Len(queue) > errAt
    /\ cur = "IconClicked" /\ checked = (tableAtQuery > 0)

\* C9: start and redeploy only hand the spawn to a detached worker: the step
\* that invokes them changes no process, the loop can always go on to its
\* next step while workers are pending, and a worker's step changes nothing
\* of the loop.
C9_LoopNeverBlocks ==
    /\ [][/\ (OpStep("start") \/ OpStep("redeploy")) =>
                /\ UNCHANGED <<alive, dying, errs>>
                /\ pendingStart' + pendingRedeploy' = pendingStart + pendingRedeploy + 1
          /\ WorkerStep =>
                UNCHANGED <<pc, hpc, cur, checked, snap, queue, tray_icon, opLog>>]_vars
    /\ [](pc = "Running" =>
              /\ (hpc = "query" => ENABLED Query)
              /\ (hpc = "set" => ENABLED SetChecked)
              /\ (hpc = "wait" /\ queue # <<>> =>
                     ENABLED (HandleQuit \/ HandleIconClicked \/ HandleServiceClicked)))

\* an IconClicked was handled while the worker of an earlier start is pending
C9_Witness ==
    /\ pc = "Running" /\ hpc = "wait" /\ cur = "IconClicked"
    /\ Len(opLog) = 1 /\ opLog[1].op = "start"
    /\ pendingStart = 1

\* C10: a stop that finds no matching process kills nothing, changes nothing
\* in the table and raises nothing; a stop never leaves a process unkilled.
C10_StopIdempotent ==
    [][OpStep("stop") =>
          /\ Last(opLog').killed = alive + dying
          /\ alive' = 0 /\ alive' + dying' = alive + dying
          /\ (alive + dying = 0 =>
                 /\ Last(opLog').killed = 0
                 /\ UNCHANGED <<alive, dying>>)
          /\ pc' = pc /\ hpc' = "query"]_vars

\* two stops in succession, the second after the processes of the first exited
C10_Witness ==
    /\ Len(opLog) >= 2
    /\ opLog[Len(opLog) - 1].op = "stop" /\ opLog[Len(opLog) - 1].killed > 0
    /\ Last(opLog).op = "stop" /\ Last(opLog).killed = 0
    /\ alive + dying = 0

----------------------------------------------------------------------------
\* C11: every spawn attempted for start is of root joined with the server
\* executable name with exactly the restart flag, and every spawn attempted
\* for redeploy is of root joined with the deployer executable name with
\* exactly the deploy flag; neither uses the other's executable or flag.
C11_SpawnPathAndFlag ==
    \A e \in spawned :
        /\ e.by \in {"start", "redeploy"}
        /\ (e.by = "start" =>
               /\ e.exe = root \o <<"WeaselServer.exe">>
               /\ e.args = <<"/restart">>)
        /\ (e.by = "redeploy" =>
               /\ e.exe = root \o <<"WeaselDeployer.exe">>
               /\ e.args = <<"/deploy">>)
        /\ (\E i \in DOMAIN opLog : opLog[i].op = e.by)

\* with root /opt/svc a start and a redeploy have both made their spawn
C11_Witness ==
    /\ root = <<"opt", "svc">>
    /\ spawned = {[by |-> "start", exe |-> <<"opt", "svc", "WeaselServer.exe">>,
                   args |-> <<"/restart">>],
                  [by |-> "redeploy", exe |-> <<"opt", "svc", "WeaselDeployer.exe">>,
                   args |-> <<"/deploy">>]}

C13_FifoExactlyOnce ==
    /\ [](/\ Len(qids) = Len(queue)
          /\ lastId + Len(qids) = enq
          /\ \A k \in DOMAIN qids : qids[k] = lastId + k)
    /\ [][/\ Len(queue') < Len(queue) =>
                /\ pc = "Running" /\ hpc = "wait"
                /\ cur' = Head(queue) /\ queue' = Tail(queue)
                /\ lastId' = lastId + 1
          /\ Len(queue') > Len(queue) =>
                /\ enq' = enq + 1
                /\ SubSeq(queue', 1, Len(queue)) = queue
                /\ Len(queue') = Len(queue) + 1
          /\ (hpc # "wait" => queue' = queue)]_vars

\* an IconClicked sent before a ServiceClicked was handled before it
C13_Witness ==
    /\ pc = "Running" /\ hpc = "wait"
    /\ lastId = 2 /\ cur = "ServiceClicked" /\ enq = 3
    /\ queue = <<"Quit">> /\ qids = <<3>>
    /\ Len(opLog) = 1 /\ opLog[1].op = "stop"

\* C14 (as stated): while Running the checkbox changes only when the loop
\* finishes handling an IconClicked or a ServiceClicked event, and a
\* controller operation is invoked only by the loop handling ServiceClicked:
\* ticks, the menu and icon handlers and the workers do neither.
C14_OnlyLoopChangesCheckbox ==
    [][pc = "Running" =>
          /\ (checked' # checked =>
                 FinishStep /\ cur \in {"IconClicked", "ServiceClicked"})
          /\ (opLog' # opLog => DispatchStep("ServiceClicked"))]_vars

\* C14 (amended): while Running the checkbox changes only when the loop
\* finishes handling an IconClicked or a ServiceClicked event, or when the
\* service item flips itself as the user activates it; start and stop are
\* invoked only by the loop handling ServiceClicked, and the only operation a
\* handler invokes is redeploy, by the redeploy entry; ticks, workers and
\* changes of the process table leave the checkbox alone and invoke nothing.
C14_CheckboxFrame ==
    [][pc = "Running" =>
          /\ (checked' # checked =>
                 \/ FinishStep /\ cur \in {"IconClicked", "ServiceClicked"}
                 \/ /\ Len(queue') = Len(queue) + 1
                    /\ Last(queue') = "ServiceClicked"
                    /\ hpc = "wait" /\ opLog' = opLog)
          /\ (opLog' # opLog =>
                 \/ DispatchStep("ServiceClicked")
                 \/ OpStep("redeploy") /\ hpc = "wait" /\ queue' = queue)
          /\ ((OpStep("start") \/ OpStep("stop")) => DispatchStep("ServiceClicked"))
          /\ (WorkerStep => checked' = checked /\ opLog' = opLog)
          /\ ((alive' # alive \/ dying' # dying) /\ opLog' = opLog =>
                 checked' = checked)
          /\ (control_flow' # control_flow /\ queue' = queue =>
                 checked' = checked /\ opLog' = opLog)]_vars

\* the server process went away, the loop woke up, a redeploy was made, and
\* the checkbox is still checked
C14_Witness ==
    /\ pc = "Running" /\ hpc = "wait" /\ cur = "none" /\ enq = 0
    /\ control_flow = "WaitUntil"
    /\ opLog = <<[op |-> "redeploy", killed |-> 0]>> /\ spawned # {}
    /\ checked /\ alive + dying = 0

\* C15: the redeploy entry invokes redeploy from the handler and sends no
\* event: checkbox, loop, queue and server processes stay as they are and one
\* deployer spawn is handed to a worker, which never touches the server
\* processes; the quit, service and icon handlers only send their event and
\* invoke no controller operation.
C15_RedeployDirect ==
    [][/\ OpStep("redeploy") =>
             /\ pc = "Running" /\ hpc = "wait"
             /\ pendingRedeploy' = pendingRedeploy + 1
             /\ UNCHANGED <<queue, qids, enq, checked, pc, hpc, cur, lastId,
                            alive, dying, pendingStart, spawned>>
       /\ pendingRedeploy' < pendingRedeploy =>
             UNCHANGED <<alive, dying, pendingStart, checked, queue>>
       /\ Len(queue') > Len(queue) =>
             /\ Last(queue') \in {"Quit", "ServiceClicked", "IconClicked"}
             /\ opLog' = opLog
             /\ UNCHANGED <<pendingStart, pendingRedeploy, alive, dying, spawned>>]_vars

\* a redeploy was invoked with nothing sent and nothing handled
C15_Witness ==
    /\ pc = "Running" /\ hpc = "wait" /\ cur = "none"
    /\ enq = 0 /\ queue = <<>>
    /\ opLog = <<[op |-> "redeploy", killed |-> 0]>>
    /\ pendingRedeploy = 1 /\ spawned = {}
    /\ checked /\ alive = 1

\* C16 (as stated): every issued start or redeploy has its spawn attempted,
\* whatever is handled afterwards, a Quit included: when the process has
\* exited no issued spawn is left unattempted.
C16_SpawnAlwaysAttempted ==
    exited => pendingStart = 0 /\ pendingRedeploy = 0

\* C16 (amended): no event handled afterwards cancels an issued start or
\* redeploy: a pending spawn goes away only by its worker attempting it, a
\* stop included, and as long as the process has not exited the attempt is
\* eventually made; the exit of the process after a handled Quit ends the
\* workers that have not attempted their spawn yet.
C16_NoCancelWhileAlive ==
    /\ [][/\ pendingStart' < pendingStart =>
                /\ pendingStart' = pendingStart - 1 /\ ~exited
                /\ \E e \in spawned' : e.by = "start"
                /\ opLog' = opLog /\ queue' = queue
          /\ pendingRedeploy' < pendingRedeploy =>
                /\ pendingRedeploy' = pendingRedeploy - 1 /\ ~exited
                /\ \E e \in spawned' : e.by = "redeploy"
                /\ opLog' = opLog /\ queue' = queue]_vars
    /\ (pendingStart > 0) ~> (pendingStart = 0 \/ exited)
    /\ (pendingRedeploy > 0) ~> (pendingRedeploy = 0 \/ exited)

\* a start is still pending after a later ServiceClicked invoked stop
C16_Witness ==
    /\ pc = "Running" /\ ~exited
    /\ Len(opLog) = 2 /\ opLog[1].op = "start" /\ opLog[2].op = "stop"
    /\ pendingStart = 1 /\ spawned = {}

\* C17: of the instances launched side by side at most one is in the dispatch
\* loop at any time, and an instance enters it only when its snapshot showed
\* no other instance in the process table.
C17_AtMostOneInLoop ==
    /\ Cardinality({i \in Inst : ipc[i] = "loop"}) <= 1
    /\ \A i \in Inst : ipc[i] = "loop" =>
           /\ icount[i] = 1
           /\ \A j \in Inst \ {i} : ipc[j] \in {"main", "exiting"} => icount[j] # 1

\* one instance is in the loop, a second one has exited, a third is checking
C17_Witness ==
    /\ ipc[1] = "loop" /\ ipc[2] = "exit0" /\ ipc[3] = "main"
    /\ icount[1] = 1 /\ icount[2] = 2

\* C18 (as stated): when all the launched instances have finished their
\* guard, at least one of them has passed it.
C18_SomeInstancePasses ==
    (\A i \in Inst : ipc[i] \in {"exit0", "loop", "quit"}) =>
        (\E i \in Inst : ipc[i] \in {"loop", "quit"})

\* C18 (amended): every launched instance eventually finishes its guard; it
\* passes exactly when its snapshot showed no other instance in the process
\* table and exits otherwise, so at least one passes only if some instance
\* takes its snapshot alone: instances that all take their snapshot while
\* another one is still in the table all exit.
C18_GuardDecides ==
    /\ [](\A i \in Inst :
             /\ (ipc[i] \in {"loop", "quit"} => icount[i] = 1)
             /\ (ipc[i] \in {"exiting", "exit0"} => icount[i] > 1))
    /\ \A i \in Inst : (ipc[i] = "main") ~> (ipc[i] \in {"loop", "quit", "exit0"})

\* two instances saw each other and exited; the third checked alone and passed
C18_Witness ==
    /\ ipc[1] = "exit0" /\ ipc[2] = "exit0" /\ ipc[3] = "loop"
    /\ icount[1] = 2 /\ icount[2] = 2 /\ icount[3] = 1

\* C19 (as stated): from entering Running until an IconClicked or a
\* ServiceClicked event is handled the checkbox is checked.
C19_CheckedUntilHandled ==
    (pc = "Running" /\ cur = "none") => checked

\* C19 (amended): on entering Running the checkbox is checked whatever the
\* process table holds, and it stays checked until the user activates the
\* service item, which flips it before the event is handled, or the first
\* IconClicked is handled; nothing queries the process table at startup.
C19_CheckedUntilActivated ==
    /\ [](/\ (pc = "Running" /\ cur = "none"
                 /\ \A i \in DOMAIN queue : queue[i] # "ServiceClicked") => checked
          /\ (cur = "none" => tableAtQuery = 0 /\ snap = FALSE /\ opLog \in Seq({[op |-> "redeploy", killed |-> 0]})))
    /\ [][pc = "start" /\ pc' = "Running" =>
             checked' /\ UNCHANGED <<alive, dying, snap, tableAtQuery, queue>>]_vars

\* Running with no server process, an IconClicked queued, still checked
C19_Witness ==
    /\ pc = "Running" /\ cur = "none" /\ hpc = "wait"
    /\ queue = <<"IconClicked">>
    /\ alive + dying = 0 /\ checked

====
